---- MODULE Spec2Model ----
(***************************************************************************)
(* Model of the fixture generators of rgu-labs-term3-discrete-math:        *)
(*   src/generators/relations.py  generate_relation_fast,                  *)
(*                                generate_relation_very_fast              *)
(*   src/generators/sets.py       generate_set_commands                    *)
(*                                                                         *)
(* Text is modelled as sequences of code points; a file is the sequence of *)
(* code points written to it.  A density is the rational p / DenQ.  The    *)
(* random source is a nondeterministic input.  The sizes the code fixes    *)
(* (94 pool symbols, the code-point range 0x2600..0x10FFFF, the batch of   *)
(* 10000 lines, the 1000000 threshold, the 26 lowercase letters) are       *)
(* scaled down to the bounds below; the shape of every range is kept.      *)
(***************************************************************************)
EXTENDS Integers, Sequences, FiniteSets, TLC

(* ------------------------------ bounds -------------------------------- *)
\* largest n of a full generator run
MaxN == 2
\* largest n of a run that only builds the symbol base and the header
MaxBaseN == 6
\* denominator of the densities: density = p / DenQ
DenQ == 3
\* random.random() draws r / RandDen, r in 0..RandDen-1
RandDen == 4
\* len(symbol_pool), 94 in the code
PoolSize == 1
\* number of code points after 0x2600 in the extension range (0x10FFFF - 0x2600 in the code)
ExtraSpan == 5
\* batch_size, 10000 in the code
BatchSize == 3
\* the bound 1000000 on n * n * density that selects the index-sampling branch
Threshold == 2
\* largest n_sets
MaxSets == 3
\* len(string.ascii_lowercase), 26 in the code
AlphabetSize == 1

(* ------------------------- program constants -------------------------- *)
NL == 10
SP == 32
Digit0 == 48
CharA == 65
CharX == 88
PoolFirst == 97
PadWidth == 6
FirstExtra == 9728

\* the scaled images of 0x3000, 0xD800, 0xDFFF, 0xE000 and 0x10FFFF
IdeographicSpace == FirstExtra + 1
SurrogateLo == FirstExtra + 2
SurrogateHi == FirstExtra + 3
SurrogateNext == SurrogateHi + 1
MaxCodePoint == FirstExtra + ExtraSpan

(* ------------------------------ helpers ------------------------------- *)
Range(s) == {s[x] : x \in DOMAIN s}

Min(a, b) == IF a <= b THEN a ELSE b

\* str.isspace() of one character
IsSpace(c) == c \in ((9..13) \cup (28..32) \cup {133, 160, IdeographicSpace})

\* a faulty variant: rounds a positive quotient up
IntTruncUp(a, b) == IF a >= 0 THEN (a + b - 1) \div b ELSE -((-a) \div b)

\* int(a / b) for b > 0: truncation toward zero
IntTrunc(a, b) == IF a >= 0 THEN a \div b ELSE -((-a) \div b)

\* sep.join(parts): the parts lo..hi joined, by halves
RECURSIVE JoinRange(_, _, _, _)
JoinRange(parts, sep, lo, hi) ==
  IF lo > hi THEN <<>>
  ELSE IF lo = hi THEN parts[lo]
  ELSE LET mid == (lo + hi) \div 2
       IN  JoinRange(parts, sep, lo, mid) \o sep \o JoinRange(parts, sep, mid + 1, hi)

Join(parts, sep) == JoinRange(parts, sep, 1, Len(parts))

\* the decimal digits of i >= 0
RECURSIVE Digits(_)
Digits(i) == IF i < 10 THEN <<Digit0 + i>> ELSE Digits(i \div 10) \o <<Digit0 + (i % 10)>>

\* zero padding to a width of at least w
RECURSIVE ZeroPad(_, _)
ZeroPad(s, w) == IF Len(s) >= w THEN s ELSE ZeroPad(<<Digit0>> \o s, w)

\* a faulty variant: the index is dropped
XSymbolShort(i) == <<CharX>> \o ZeroPad(<<Digit0>>, PadWidth)

\* f"X{i:06d}"
XSymbol(i) == <<CharX>> \o ZeroPad(Digits(i), PadWidth)

\* list(symbol_pool): one single-character token per pool character
SymbolPool == [x \in 1..PoolSize |-> <<PoolFirst + x - 1>>]

\* random.sample(population, k) for 0 <= k <= len(population): its possible results
Samples(population, k) ==
  {[x \in 1..k |-> population[f[x]]] :
     f \in {g \in [1..k -> DOMAIN population] : \A x, y \in 1..k : x # y => g[x] # g[y]}}

\* lst * times
RECURSIVE Repeat(_, _)
Repeat(lst, times) == IF times <= 0 THEN <<>> ELSE lst \o Repeat(lst, times - 1)

\* lst[:k] for k >= 0
Prefix(lst, k) == SubSeq(lst, 1, Min(k, Len(lst)))

\* i = idx // n, j = idx % n
RowOf(idx, nn) == idx \div nn

ColOf(idx, nn) == idx % nn

\* a faulty variant: no separator
PairLineNoSpace(b, ii, jj) == b[ii + 1] \o b[jj + 1]

\* f"{base[i]} {base[j]}"
PairLine(b, ii, jj) == b[ii + 1] \o <<SP>> \o b[jj + 1]

\* a faulty variant: flushes one line late
FlushNeededLate(b) == Len(b) > BatchSize

\* len(batch) >= batch_size
FlushNeeded(b) == Len(b) >= BatchSize

\* "\n".join(batch) + "\n"
WriteBatch(b) == Join(b, <<NL>>) \o <<NL>>

\* a faulty variant: <= for <
RandomBelowOrEqual(r, pp) == r * DenQ <= pp * RandDen

\* row_random[j] < random_threshold, with row_random[j] = r / RandDen
RandomBelow(r, pp) == r * DenQ < pp * RandDen

(* ------------------------------- state -------------------------------- *)
VARIABLES
  gen,            \* "fast" | "very_fast": the generator that runs
  n,              \* parameter n
  p,              \* density = p / DenQ
  pc,             \* position in the generator
  err,            \* "" or the exception that ended the run
  base,           \* the symbol base
  extra_symbols,  \* generate_relation_fast: extra symbols collected so far
  code_point,     \* generate_relation_fast: the code point under test
  file,           \* code points written to the output file
  batch,          \* lines appended and not yet written
  total,          \* total_pairs / total_missing
  indices,        \* the part of random.sample(range(n * n), total) consumed so far
  missing,        \* missing_indices
  i, j, idx,      \* loop counters
  emitted,        \* history: the flat indices of the pairs appended, in order
  n_sets,           \* generate_set_commands: parameter n_sets
  elements_per_set, \* parameter elements_per_set
  universe_size,    \* parameter universe_size
  spc,              \* position in generate_set_commands
  serr,             \* "" or the exception that ended generate_set_commands
  lines,            \* the command lines collected so far
  sk,               \* index (from 1) of the set name the running loop is at
  sfile             \* code points written to the command file

relVars == <<gen, n, p, pc, err, base, extra_symbols, code_point, file, batch,
             total, indices, missing, i, j, idx, emitted>>

setVars == <<n_sets, elements_per_set, universe_size, spc, serr, lines, sk, sfile>>

vars == <<relVars, setVars>>

Generators == {"fast", "very_fast"}

\* generate_set_commands has not been called
SetsIdle ==
  /\ n_sets = 0
  /\ elements_per_set = 0
  /\ universe_size = 0
  /\ spc = "idle"
  /\ serr = ""
  /\ lines = <<>>
  /\ sk = 0
  /\ sfile = <<>>

InitWith(maxn) ==
  /\ SetsIdle
  /\ gen \in Generators
  /\ n \in -1..maxn
  /\ p \in -2..(DenQ + 2)
  /\ pc = "start"
  /\ err = ""
  /\ base = <<>>
  /\ extra_symbols = <<>>
  /\ code_point = 0
  /\ file = <<>>
  /\ batch = <<>>
  /\ total = 0
  /\ indices = <<>>
  /\ missing = {}
  /\ i = 0
  /\ j = 0
  /\ idx = 0
  /\ emitted = <<>>

Init == InitWith(MaxN)

InitBase == InitWith(MaxBaseN)

baseVars == <<base, extra_symbols, code_point>>
pairVars == <<file, batch, total, indices, missing, i, j, idx, emitted>>
inputVars == <<gen, n, p>>

(* -------------------------- the symbol base --------------------------- *)
\* base = random.sample(symbol_pool, n): n <= len(symbol_pool), both generators
SampleBase ==
  /\ pc = "start"
  /\ ~(n > PoolSize)
  /\ IF n < 0
       THEN /\ pc' = "error"
            /\ err' = "ValueError"
            /\ UNCHANGED base
       ELSE /\ \E s \in Samples(SymbolPool, n) : base' = s
            /\ pc' = "open"
            /\ UNCHANGED err
  /\ UNCHANGED <<inputVars, setVars, extra_symbols, code_point, pairVars>>

\* generate_relation_very_fast, n > len(symbol_pool): the pool and X000000, X000001, ...
ExtendBaseVeryFast ==
  /\ pc = "start"
  /\ gen = "very_fast"
  /\ n > PoolSize
  /\ LET extra_needed == n - PoolSize
         extra == [x \in 1..extra_needed |-> XSymbol(x - 1)]
     IN  base' = SymbolPool \o Prefix(extra, extra_needed)
  /\ pc' = "open"
  /\ UNCHANGED <<inputVars, setVars, err, extra_symbols, code_point, pairVars>>

\* generate_relation_fast, n > len(symbol_pool): extra_symbols = [], code_point = 0x2600
ExtendBaseFastStart ==
  /\ pc = "start"
  /\ gen = "fast"
  /\ n > PoolSize
  /\ extra_symbols' = <<>>
  /\ code_point' = FirstExtra
  /\ pc' = "extra_loop"
  /\ UNCHANGED <<inputVars, setVars, err, base, pairVars>>

\* one pass of `while len(extra_symbols) < extra_needed`
ExtendBaseFastIter ==
  /\ pc = "extra_loop"
  /\ Len(extra_symbols) < n - PoolSize
  /\ IF SurrogateLo <= code_point /\ code_point <= SurrogateHi
       THEN /\ code_point' = SurrogateNext
            /\ UNCHANGED <<extra_symbols, pc>>
       ELSE LET extra_needed == n - PoolSize
                appended == IF ~IsSpace(code_point)
                              THEN Append(extra_symbols, <<code_point>>)
                              ELSE extra_symbols
            IN  /\ code_point' = code_point + 1
                /\ IF code_point + 1 > MaxCodePoint
                     THEN /\ extra_symbols' =
                               Repeat(appended, (extra_needed \div Len(appended)) + 1)
                          /\ pc' = "extra_done"
                     ELSE /\ extra_symbols' = appended
                          /\ UNCHANGED pc
  /\ UNCHANGED <<inputVars, setVars, err, base, pairVars>>

\* base = list(symbol_pool) + extra_symbols[:extra_needed]
ExtendBaseFastDone ==
  /\ \/ pc = "extra_done"
     \/ pc = "extra_loop" /\ ~(Len(extra_symbols) < n - PoolSize)
  /\ base' = SymbolPool \o Prefix(extra_symbols, n - PoolSize)
  /\ pc' = "open"
  /\ UNCHANGED <<inputVars, setVars, err, extra_symbols, code_point, pairVars>>

\* open(file_path, "w") and f.write(" ".join(base) + "\n")
WriteHeader ==
  /\ pc = "open"
  /\ file' = Join(base, <<SP>>) \o <<NL>>
  /\ pc' = "branch"
  /\ UNCHANGED <<inputVars, setVars, err, baseVars, batch, total, indices, missing, i, j, idx, emitted>>

(* ------------------------------ the pairs ----------------------------- *)
\* batch.append(f"{base[i]} {base[j]}") and the flush check that follows it
AppendPair(ii, jj) ==
  LET b1 == Append(batch, PairLine(base, ii, jj))
  IN  /\ emitted' = Append(emitted, ii * n + jj)
      /\ IF FlushNeeded(b1)
           THEN /\ file' = file \o WriteBatch(b1)
                /\ batch' = <<>>
           ELSE /\ batch' = b1
                /\ UNCHANGED file

\* `if batch: f.write("\n".join(batch) + "\n")` and the return
WriteRemaining ==
  /\ file' = IF batch # <<>> THEN file \o WriteBatch(batch) ELSE file
  /\ pc' = "done"
  /\ UNCHANGED <<inputVars, setVars, err, baseVars, batch, total, indices, missing, i, j, idx, emitted>>

\* the indices random.sample(range(n * n), total) can still yield
NotDrawn == (0..(n * n - 1)) \ Range(indices)

\* one pass of `for idx in indices`
SampledIter ==
  /\ Len(indices) < total
  /\ \E x \in NotDrawn :
       /\ indices' = Append(indices, x)
       /\ AppendPair(RowOf(x, n), ColOf(x, n))
  /\ UNCHANGED <<inputVars, setVars, pc, err, baseVars, total, missing, i, j, idx>>

\* random.sample(range(n * n), k) raises ValueError unless 0 <= k <= n * n
SampleSizeOk(k) == 0 <= k /\ k <= n * n

\* generate_relation_fast: n * n * density > 1000000
FastSparseStart ==
  /\ pc = "branch"
  /\ gen = "fast"
  /\ n * n * p > Threshold * DenQ
  /\ LET total_pairs == IntTrunc(n * n * p, DenQ)
     IN  IF SampleSizeOk(total_pairs)
           THEN /\ total' = total_pairs
                /\ pc' = "sparse_loop"
                /\ UNCHANGED err
           ELSE /\ pc' = "error"
                /\ err' = "ValueError"
                /\ UNCHANGED total
  /\ UNCHANGED <<inputVars, setVars, baseVars, file, batch, indices, missing, i, j, idx, emitted>>

FastSparseIter == pc = "sparse_loop" /\ SampledIter

FastSparseDone == pc = "sparse_loop" /\ Len(indices) = total /\ WriteRemaining

\* generate_relation_fast: the row-by-row branch
FastRowStart ==
  /\ pc = "branch"
  /\ gen = "fast"
  /\ ~(n * n * p > Threshold * DenQ)
  /\ pc' = "row_loop"
  /\ i' = 0
  /\ j' = 0
  /\ UNCHANGED <<inputVars, setVars, err, baseVars, file, batch, total, indices, missing, idx, emitted>>

\* the step of the nested loops `for i in range(n): for j in range(n)`
NextCell ==
  IF j + 1 < n THEN i' = i /\ j' = j + 1 ELSE i' = i + 1 /\ j' = 0

\* one cell (i, j): the pair is kept when row_random[j] < density
FastRowIter ==
  /\ pc = "row_loop"
  /\ i < n
  /\ \E r \in 0..(RandDen - 1) :
       IF RandomBelow(r, p)
         THEN AppendPair(i, j)
         ELSE UNCHANGED <<file, batch, emitted>>
  /\ NextCell
  /\ UNCHANGED <<inputVars, setVars, pc, err, baseVars, total, indices, missing, idx>>

FastRowDone == pc = "row_loop" /\ ~(i < n) /\ WriteRemaining

\* generate_relation_very_fast: density > 0.5
VeryFastComplementStart ==
  /\ pc = "branch"
  /\ gen = "very_fast"
  /\ 2 * p > DenQ
  /\ LET total_missing == IntTrunc(n * n * (DenQ - p), DenQ)
     IN  /\ total' = total_missing
         /\ IF total_missing = 0
              THEN /\ pc' = "all_loop"
                   /\ i' = 0
                   /\ j' = 0
                   /\ UNCHANGED <<err, missing, idx>>
              ELSE IF SampleSizeOk(total_missing)
                     THEN /\ \E s \in SUBSET (0..(n * n - 1)) :
                               /\ Cardinality(s) = total_missing
                               /\ missing' = s
                          /\ pc' = "complement_loop"
                          /\ idx' = 0
                          /\ UNCHANGED <<err, i, j>>
                     ELSE /\ pc' = "error"
                          /\ err' = "ValueError"
                          /\ UNCHANGED <<missing, i, j, idx>>
  /\ UNCHANGED <<inputVars, setVars, baseVars, file, batch, indices, emitted>>

\* total_missing = 0: every pair (i, j)
VeryFastAllIter ==
  /\ pc = "all_loop"
  /\ i < n
  /\ AppendPair(i, j)
  /\ NextCell
  /\ UNCHANGED <<inputVars, setVars, pc, err, baseVars, total, indices, missing, idx>>

VeryFastAllDone == pc = "all_loop" /\ ~(i < n) /\ WriteRemaining

\* one pass of `for idx in range(n * n): if idx not in missing_indices`
VeryFastComplementIter ==
  /\ pc = "complement_loop"
  /\ idx < n * n
  /\ IF idx \notin missing
       THEN AppendPair(RowOf(idx, n), ColOf(idx, n))
       ELSE UNCHANGED <<file, batch, emitted>>
  /\ idx' = idx + 1
  /\ UNCHANGED <<inputVars, setVars, pc, err, baseVars, total, indices, missing, i, j>>

VeryFastComplementDone == pc = "complement_loop" /\ ~(idx < n * n) /\ WriteRemaining

\* generate_relation_very_fast: density <= 0.5
VeryFastDirectStart ==
  /\ pc = "branch"
  /\ gen = "very_fast"
  /\ ~(2 * p > DenQ)
  /\ LET total_pairs == IntTrunc(n * n * p, DenQ)
     IN  IF SampleSizeOk(total_pairs)
           THEN /\ total' = total_pairs
                /\ pc' = "direct_loop"
                /\ UNCHANGED err
           ELSE /\ pc' = "error"
                /\ err' = "ValueError"
                /\ UNCHANGED total
  /\ UNCHANGED <<inputVars, setVars, baseVars, file, batch, indices, missing, i, j, idx, emitted>>

VeryFastDirectIter == pc = "direct_loop" /\ SampledIter

VeryFastDirectDone == pc = "direct_loop" /\ Len(indices) = total /\ WriteRemaining

NextBase ==
  \/ SampleBase
  \/ ExtendBaseVeryFast
  \/ ExtendBaseFastStart
  \/ ExtendBaseFastIter
  \/ ExtendBaseFastDone
  \/ WriteHeader

Next ==
  \/ NextBase
  \/ FastSparseStart
  \/ FastSparseIter
  \/ FastSparseDone
  \/ FastRowStart
  \/ FastRowIter
  \/ FastRowDone
  \/ VeryFastComplementStart
  \/ VeryFastAllIter
  \/ VeryFastAllDone
  \/ VeryFastComplementIter
  \/ VeryFastComplementDone
  \/ VeryFastDirectStart
  \/ VeryFastDirectIter
  \/ VeryFastDirectDone

Spec == Init /\ [][Next]_vars

SpecBase == InitBase /\ [][NextBase]_vars

(* --------------------- generate_set_commands -------------------------- *)
CharLowerA == 97

Max(a, b) == IF a >= b THEN a ELSE b

\* string.ascii_lowercase, cut to AlphabetSize letters
AsciiLowercase == [x \in 1..AlphabetSize |-> CharLowerA + x - 1]

\* string.ascii_lowercase[:universe_size]: a negative stop counts from the end
Letters(u) ==
  IF u >= 0 THEN Prefix(AsciiLowercase, u)
  ELSE Prefix(AsciiLowercase, Max(AlphabetSize + u, 0))

\* [chr(ord("A") + i) for i in range(n_sets)]
SetNames(ns) == [x \in 1..Max(ns, 0) |-> CharA + x - 1]

\* the verbs "new", "add", "see", "pow", "rem", "del"
StrNew == <<110, 101, 119>>
StrAdd == <<97, 100, 100>>
StrSee == <<115, 101, 101>>
StrPow == <<112, 111, 119>>
StrRem == <<114, 101, 109>>
StrDel == <<100, 101, 108>>

\* the operators "+", "&", "-", "<", "="
OpUnion == 43
OpInter == 38
OpDiff == 45
OpSubset == 60
OpEqual == 61

\* f"{verb} {name}"
Cmd1(verb, name) == verb \o <<SP, name>>

\* f"{verb} {name} {e}"
Cmd2(verb, name, e) == verb \o <<SP, name, SP, e>>

\* f"{a} {op} {b}"
BinOp(a, op, b) == <<a, SP, op, SP, b>>

\* a faulty variant: the mirrored subset test is missing
PairOpsNoMirror(a, b) ==
  <<BinOp(a, OpUnion, b), BinOp(a, OpInter, b), BinOp(a, OpDiff, b),
    BinOp(a, OpSubset, b), BinOp(a, OpSubset, b), BinOp(a, OpEqual, b)>>

\* the six lines appended for one ordered pair (a, b), a != b
PairOps(a, b) ==
  <<BinOp(a, OpUnion, b), BinOp(a, OpInter, b), BinOp(a, OpDiff, b),
    BinOp(a, OpSubset, b), BinOp(b, OpSubset, a), BinOp(a, OpEqual, b)>>

\* `for a in set_names: for b in set_names: if a != b: ...` from position (a, b) on
RECURSIVE OpsFrom(_, _, _)
OpsFrom(names, a, b) ==
  IF a > Len(names) THEN <<>>
  ELSE IF b > Len(names) THEN OpsFrom(names, a + 1, 1)
  ELSE (IF names[a] # names[b] THEN PairOps(names[a], names[b]) ELSE <<>>)
       \o OpsFrom(names, a, b + 1)

\* a faulty variant: no clamp to the universe
AddCountRequested(eps, u) == eps

\* k of random.sample(letters, k=min(elements_per_set, universe_size))
AddCount(eps, u) == Min(eps, u)

\* k of random.sample(set_names, k=len(set_names) // 2 or 1)
DelCount(m) == IF m \div 2 # 0 THEN m \div 2 ELSE 1

InitSets ==
  /\ gen = "fast"
  /\ n = 0
  /\ p = 0
  /\ pc = "idle"
  /\ err = ""
  /\ base = <<>>
  /\ extra_symbols = <<>>
  /\ code_point = 0
  /\ file = <<>>
  /\ batch = <<>>
  /\ total = 0
  /\ indices = <<>>
  /\ missing = {}
  /\ i = 0
  /\ j = 0
  /\ idx = 0
  /\ emitted = <<>>
  /\ n_sets \in -1..MaxSets
  /\ elements_per_set \in -1..(AlphabetSize + 1)
  /\ universe_size \in -1..(AlphabetSize + 1)
  /\ spc = "start"
  /\ serr = ""
  /\ lines = <<>>
  /\ sk = 0
  /\ sfile = <<>>

setInputs == <<n_sets, elements_per_set, universe_size>>

\* `for name in set_names: lines.append(f"new {name}")`
SetsNew ==
  /\ spc = "start"
  /\ LET names == SetNames(n_sets)
     IN  lines' = [x \in 1..Len(names) |-> Cmd1(StrNew, names[x])]
  /\ spc' = "add"
  /\ sk' = 1
  /\ UNCHANGED <<relVars, setInputs, serr, sfile>>

\* one pass of the loop that samples the elements of a set and appends its add lines
SetsAdd ==
  /\ spc = "add"
  /\ sk <= Len(SetNames(n_sets))
  /\ LET letters == Letters(universe_size)
         k == AddCount(elements_per_set, universe_size)
         name == SetNames(n_sets)[sk]
     IN  IF 0 <= k /\ k <= Len(letters)
           THEN /\ \E elems \in Samples(letters, k) :
                     lines' = lines \o [x \in 1..k |-> Cmd2(StrAdd, name, elems[x])]
                /\ sk' = sk + 1
                /\ UNCHANGED <<spc, serr>>
           ELSE /\ spc' = "error"
                /\ serr' = "ValueError"
                /\ UNCHANGED <<lines, sk>>
  /\ UNCHANGED <<relVars, setInputs, sfile>>

\* "see", one "see X" per set, and the six lines of every ordered pair of distinct sets
SetsSeeOps ==
  /\ spc = "add"
  /\ ~(sk <= Len(SetNames(n_sets)))
  /\ LET names == SetNames(n_sets)
     IN  lines' = Append(lines, StrSee)
                  \o [x \in 1..Len(names) |-> Cmd1(StrSee, names[x])]
                  \o OpsFrom(names, 1, 1)
  /\ spc' = "pow"
  /\ sk' = 1
  /\ UNCHANGED <<relVars, setInputs, serr, sfile>>

\* one pass of the pow / rem loop; random.choice raises IndexError on an empty string
SetsPowRem ==
  /\ spc = "pow"
  /\ sk <= Len(SetNames(n_sets))
  /\ LET letters == Letters(universe_size)
         name == SetNames(n_sets)[sk]
     IN  IF Len(letters) = 0
           THEN /\ spc' = "error"
                /\ serr' = "IndexError"
                /\ lines' = Append(lines, Cmd1(StrPow, name))
                /\ UNCHANGED sk
           ELSE /\ \E to_remove \in Range(letters) :
                     lines' = lines \o <<Cmd1(StrPow, name), Cmd2(StrRem, name, to_remove)>>
                /\ sk' = sk + 1
                /\ UNCHANGED <<spc, serr>>
  /\ UNCHANGED <<relVars, setInputs, sfile>>

\* the del lines of random.sample(set_names, k=len(set_names) // 2 or 1)
SetsDel ==
  /\ spc = "pow"
  /\ ~(sk <= Len(SetNames(n_sets)))
  /\ LET names == SetNames(n_sets)
         k == DelCount(Len(names))
     IN  IF k <= Len(names)
           THEN /\ \E chosen \in Samples(names, k) :
                     lines' = lines \o [x \in 1..k |-> Cmd1(StrDel, chosen[x])]
                /\ spc' = "write"
                /\ UNCHANGED serr
           ELSE /\ spc' = "error"
                /\ serr' = "ValueError"
                /\ UNCHANGED lines
  /\ UNCHANGED <<relVars, setInputs, sk, sfile>>

\* lines.append("see") and f.write("\n".join(lines) + "\n")
SetsWrite ==
  /\ spc = "write"
  /\ lines' = Append(lines, StrSee)
  /\ sfile' = Join(lines', <<NL>>) \o <<NL>>
  /\ spc' = "done"
  /\ UNCHANGED <<relVars, setInputs, serr, sk>>

NextSets ==
  \/ SetsNew
  \/ SetsAdd
  \/ SetsSeeOps
  \/ SetsPowRem
  \/ SetsDel
  \/ SetsWrite

SpecSets == InitSets /\ [][NextSets]_vars

(* ====================================================================== *)
(* Properties                                                             *)
(* ====================================================================== *)
\* the whitespace characters of the modelled code-point space
WhitespaceChars == (9..13) \cup (28..32) \cup {133, 160, FirstExtra + 1}

\* the pieces of s between the characters of seps, empty pieces included
SplitAt(s, seps) ==
  LET cuts == SelectSeq([x \in 1..Len(s) |-> x], LAMBDA x : s[x] \in seps)
  IN  [k \in 1..(Len(cuts) + 1) |->
         SubSeq(s, IF k = 1 THEN 1 ELSE cuts[k - 1] + 1,
                   IF k > Len(cuts) THEN Len(s) ELSE cuts[k] - 1)]

\* the lines of a text: a final newline ends the last line and starts no new one
LinesOf(text) ==
  LET parts == SplitAt(text, {NL})
  IN  IF parts[Len(parts)] = <<>> THEN SubSeq(parts, 1, Len(parts) - 1) ELSE parts

\* every line of the text, the last one included, ends with a newline
Terminated(text) == text = <<>> \/ text[Len(text)] = NL

\* the whitespace-separated tokens of a line
Words(line) == SelectSeq(SplitAt(line, WhitespaceChars), LAMBDA w : w # <<>>)

RECURSIVE Flatten(_)
Flatten(ss) == IF ss = <<>> THEN <<>> ELSE ss[1] \o Flatten(Tail(ss))

Distinct(s) == Cardinality({s[x] : x \in DOMAIN s}) = Len(s)

\* the line of the pair with flat index x: Symbol[x div n], a space, Symbol[x mod n]
ExpectedLine(x) == base[(x \div n) + 1] \o <<32>> \o base[(x % n) + 1]

ExpectedLines(xs) == [y \in DOMAIN xs |-> ExpectedLine(xs[y])]

ExpectedHeader == Join(base, <<32>>)

LoopPcs == {"sparse_loop", "row_loop", "all_loop", "complement_loop", "direct_loop"}

DensityInRange == 0 <= p /\ p <= DenQ

Returned == pc = "done"

\* round(a / b) for a >= 0, b > 0, ties to even
RoundHalfEven(a, b) ==
  LET f == a \div b
      r2 == 2 * (a % b)
  IN  IF r2 < b THEN f
      ELSE IF r2 > b THEN f + 1
      ELSE IF f % 2 = 0 THEN f ELSE f + 1

InRangeNoDuplicates ==
  /\ \A x \in DOMAIN emitted : 0 <= emitted[x] /\ emitted[x] < n * n
  /\ Distinct(emitted)

C2_ComplementMatchesDirect ==
  (Returned /\ gen = "very_fast" /\ n >= 1 /\ DensityInRange /\ 2 * p > DenQ) =>
     Len(emitted) = (n * n * p) \div DenQ

(* ------------------------------- C3 ----------------------------------- *)
\* the code points the extension loop of generate_relation_fast can use
UsableExtra ==
  Cardinality({c \in FirstExtra..(FirstExtra + ExtraSpan) :
                 /\ ~(FirstExtra + 2 <= c /\ c <= FirstExtra + 3)
                 /\ c \notin WhitespaceChars})

BaseBuilt == pc \in {"open", "branch"} \cup LoopPcs \cup {"done"}

NoWhitespaceInBase ==
  \A x \in DOMAIN base :
     /\ base[x] # <<>>
     /\ \A y \in DOMAIN base[x] : base[x][y] \notin WhitespaceChars

\* C3 as stated: for n >= 1 the base has exactly n tokens, pairwise distinct, none with
\* whitespace, also when the extension range is exhausted and extra symbols are repeated.
C3_BaseDistinctAlways ==
  (BaseBuilt /\ n >= 1) =>
     /\ Len(base) = n
     /\ Distinct(base)
     /\ NoWhitespaceInBase

\* C3 amended: for n >= 1 the base has exactly n tokens, none empty or with whitespace,
\* and the header line splits back into these n tokens; the tokens are pairwise distinct
\* in generate_relation_very_fast always and in generate_relation_fast whenever
\* n - len(symbol_pool) is at most the number of usable extension code points; beyond
\* that the fallback repeats extra symbols and the base holds duplicates.
C3_BaseTokens ==
  (BaseBuilt /\ n >= 1) =>
     /\ Len(base) = n
     /\ NoWhitespaceInBase
     /\ (gen = "very_fast" \/ n - PoolSize <= UsableExtra) => Distinct(base)
     /\ (gen = "fast" /\ n - PoolSize > UsableExtra) => ~Distinct(base)
     /\ pc = "branch" => Terminated(file) /\ LinesOf(file) = <<ExpectedHeader>>
                         /\ Words(LinesOf(file)[1]) = base

\* the fallback was taken: the extension range is exhausted and the base is complete
C3_Witness ==
  /\ pc = "branch" /\ gen = "fast"
  /\ n - PoolSize > UsableExtra
  /\ code_point > FirstExtra + ExtraSpan
  /\ Len(base) = n

(* ------------------------------- C4 ----------------------------------- *)
\* C4: for n >= 1, a finished run with density 0 wrote the header line only, and a
\* finished run with density 1 wrote exactly n*n pair lines, one for every ordered pair
\* (i, j) with 0 <= i, j < n.
C4_Boundaries ==
  (Returned /\ n >= 1) =>
     /\ p = 0 => /\ emitted = <<>>
                 /\ file = ExpectedHeader \o <<10>>
     /\ p = DenQ =>
          /\ Len(emitted) = n * n
          /\ \A ii, jj \in 0..(n - 1) :
                Cardinality({x \in DOMAIN emitted : emitted[x] = ii * n + jj}) = 1
          /\ Len(LinesOf(file)) = n * n + 1
          /\ Tail(LinesOf(file)) = ExpectedLines(emitted)

\* a finished run with density 1 and all four pairs of n = 2
C4_Witness == Returned /\ n = 2 /\ p = DenQ /\ Len(emitted) = 4 /\ gen = "fast"

(* ------------------------------- C5 ----------------------------------- *)
\* the run has ended, normally or by an exception, and has left an output file
OutputLeft == pc \in {"done", "error"} /\ file # <<>>

\* C5: in every output every line after the header consists of exactly two tokens, both
\* among the tokens of the header line; for every emitted flat index idx, i = idx div n
\* and j = idx mod n lie in 0..n-1 and the line is base[i], a space, base[j].
C5_LinesRoundTrip ==
  OutputLeft =>
     LET ls == LinesOf(file)
         header == Range(Words(ls[1]))
     IN  /\ Terminated(file)
         /\ Len(ls) = Len(emitted) + 1
         /\ \A x \in 2..Len(ls) :
              LET w == Words(ls[x])
              IN  Len(w) = 2 /\ w[1] \in header /\ w[2] \in header
         /\ \A x \in DOMAIN emitted :
              /\ emitted[x] \div n \in 0..(n - 1)
              /\ emitted[x] % n \in 0..(n - 1)
              /\ ls[x + 1] = ExpectedLine(emitted[x])

\* a file with the header and at least three pair lines
C5_Witness == Returned /\ n = 2 /\ Len(LinesOf(file)) >= 4 /\ base[1] # base[2]

(* ------------------------------- C6 ----------------------------------- *)
\* C6: a density outside [0,1] aborts the run with an error before anything, the header
\* included, is written: such a run never writes to the file and never returns normally.
C6_DensityRejected ==
  (n >= 1 /\ ~DensityInRange) => (file = <<>> /\ ~Returned)

(* ------------------------------- C7 ----------------------------------- *)
\* C7: with n <= 0 building the base fails with an error: such a run writes no output
\* file and never returns normally.
C7_NonPositiveRejected ==
  n <= 0 => (file = <<>> /\ ~Returned)

(* ------------------------------- C10 ---------------------------------- *)
\* the batch of a finished run: the lines of the last write, no longer pending
WrittenTail(k) == SubSeq(emitted, Len(emitted) - k + 1, Len(emitted))

\* the text of the header line and of the lines of the pairs xs, each ended by a newline
ExpectedText(xs) ==
  ExpectedHeader \o <<10>> \o Flatten([y \in DOMAIN xs |-> ExpectedLine(xs[y]) \o <<10>>])

BatchedWriterSteps ==
  /\ Len(batch) < BatchSize
  /\ pc \in LoopPcs =>
       /\ file = ExpectedText(SubSeq(emitted, 1, Len(emitted) - Len(batch)))
       /\ batch = ExpectedLines(WrittenTail(Len(batch)))

FileComplete == file = ExpectedText(emitted)

\* C10 as stated: after every flush check the batch holds fewer than batch_size lines, and
\* when the generator returns the file after the header is exactly the selected pairs in
\* selection order, each line ended by a newline, with the batch empty.
C10_BatchEmptyAtReturn ==
  /\ BatchedWriterSteps
  /\ Returned => (FileComplete /\ batch = <<>>)

\* C10 amended: after every flush check the batch holds fewer than batch_size lines and the
\* lines written followed by the batch are the selected pairs in selection order; when the
\* generator returns the file after the header is exactly the selected pairs in selection
\* order, each line ended by a newline, and no line is left unwritten: the batch is not
\* cleared by the last write, it still holds the len(pairs) mod batch_size lines that
\* write put at the end of the file.
C10_BatchedWriter ==
  /\ BatchedWriterSteps
  /\ Returned =>
       /\ FileComplete
       /\ Len(batch) = Len(emitted) % BatchSize
       /\ batch = ExpectedLines(WrittenTail(Len(batch)))

\* a finished run of four pairs: one full batch written by the flush check, one line by
\* the last write
C10_Witness ==
  /\ Returned /\ Len(emitted) = BatchSize + 1 /\ Len(batch) = 1
  /\ Len(LinesOf(file)) = BatchSize + 2

(* ------------------------------- C8 ----------------------------------- *)
BareSee == <<115, 101, 101>>

\* the letters of the universe, as code points
UniverseLetters == 97..(96 + Min(universe_size, AlphabetSize))

\* the names A, B, ... of the n_sets sets, as code points
NamesOfSets == 65..(64 + n_sets)

\* the position of the first bare `see` after the `new` lines
FirstSee ==
  SelectSeq([x \in 1..Len(lines) |-> x], LAMBDA x : x > n_sets /\ lines[x] = BareSee)[1]

\* the b of the t-th ordered pair (a, b) of distinct sets, pairs counted from 0 in the
\* order a = 1..m, b = 1..m
PairA(t, m) == (t \div (m - 1)) + 1

PairB(t, m) ==
  LET b0 == (t % (m - 1)) + 1 IN IF b0 < PairA(t, m) THEN b0 ELSE b0 + 1

ScriptShape ==
  LET m == n_sets
      q == FirstSee
      o == q + m
      r0 == o + 6 * m * (m - 1)
      d0 == r0 + 2 * m
      dn == m \div 2
  IN  /\ Len(lines) = d0 + dn + 1
      /\ \A x \in 1..m : lines[x] = <<110, 101, 119, 32, 64 + x>>
      /\ \A r \in (m + 1)..(q - 1) :
            /\ Len(lines[r]) = 7
            /\ SubSeq(lines[r], 1, 4) = <<97, 100, 100, 32>>
            /\ lines[r][5] \in NamesOfSets
            /\ lines[r][6] = 32
            /\ lines[r][7] \in UniverseLetters
            /\ \A r2 \in r..(q - 1) : lines[r][5] <= lines[r2][5]
      /\ Cardinality({x \in DOMAIN lines : lines[x] = BareSee}) = 2
      /\ \A x \in 1..m : lines[q + x] = <<115, 101, 101, 32, 64 + x>>
      /\ \A t \in 0..(m * (m - 1) - 1) :
            LET a == 64 + PairA(t, m)
                b == 64 + PairB(t, m)
            IN  /\ a # b
                /\ lines[o + 6 * t + 1] = <<a, 32, 43, 32, b>>
                /\ lines[o + 6 * t + 2] = <<a, 32, 38, 32, b>>
                /\ lines[o + 6 * t + 3] = <<a, 32, 45, 32, b>>
                /\ lines[o + 6 * t + 4] = <<a, 32, 60, 32, b>>
                /\ lines[o + 6 * t + 5] = <<b, 32, 60, 32, a>>
                /\ lines[o + 6 * t + 6] = <<a, 32, 61, 32, b>>
      /\ \A x \in 1..m :
            /\ lines[r0 + 2 * x - 1] = <<112, 111, 119, 32, 64 + x>>
            /\ Len(lines[r0 + 2 * x]) = 7
            /\ SubSeq(lines[r0 + 2 * x], 1, 6) = <<114, 101, 109, 32, 64 + x, 32>>
            /\ lines[r0 + 2 * x][7] \in UniverseLetters
      /\ \A y \in 1..dn :
            /\ Len(lines[d0 + y]) = 5
            /\ SubSeq(lines[d0 + y], 1, 4) = <<100, 101, 108, 32>>
            /\ lines[d0 + y][5] \in NamesOfSets
            /\ \A z \in 1..dn : z # y => lines[d0 + z] # lines[d0 + y]
      /\ lines[d0 + dn + 1] = BareSee
      /\ Terminated(sfile)
      /\ LinesOf(sfile) = lines

C9_SmallUniverseRejected ==
  universe_size < elements_per_set => (sfile = <<>> /\ spc # "done")

\* the letters added to the set named by code point c
AddedTo(c) ==
  {lines[x][7] : x \in {y \in DOMAIN lines :
                          /\ Len(lines[y]) = 7
                          /\ SubSeq(lines[y], 1, 6) = <<97, 100, 100, 32, c, 32>>}}

AddLinesOf(c) ==
  Cardinality({y \in DOMAIN lines :
                 /\ Len(lines[y]) = 7
                 /\ SubSeq(lines[y], 1, 6) = <<97, 100, 100, 32, c, 32>>})

\* C9 amended: with n_sets >= 1 and 1 <= universe_size <= 26, a universe_size smaller than
\* elements_per_set raises no error: the call runs to its end, adds
\* min(elements_per_set, universe_size) = universe_size elements, every letter of the
\* universe once, to each set, and writes the complete script.
C9_SmallUniverseClamped ==
  (n_sets >= 1 /\ 1 <= universe_size /\ universe_size <= AlphabetSize
     /\ universe_size < elements_per_set) =>
     /\ spc # "error"
     /\ serr = ""
     /\ spc # "done" => ENABLED NextSets
     /\ spc = "done" =>
          /\ sfile # <<>>
          /\ LinesOf(sfile) = lines
          /\ \A c \in NamesOfSets :
                /\ AddLinesOf(c) = universe_size
                /\ AddedTo(c) = UniverseLetters

\* a finished call with a universe smaller than elements_per_set
C9_Witness ==
  /\ spc = "done" /\ n_sets >= 2
  /\ universe_size >= 1 /\ universe_size < elements_per_set
  /\ sfile # <<>>
  /\ AddLinesOf(65) = universe_size

====
